---- MODULE Spec2Model ----
(***************************************************************************)
(* HexCaster real-time core: NamStage hot-swap protocol, the LV2 host's    *)
(* background loader, and the Pipeline stage/controller call protocol.     *)
(*                                                                         *)
(* Threads are modelled at the granularity of the individual loads and     *)
(* stores of the members they share.  pendingModel_ and pendingModelPath_  *)
(* are plain (non-atomic) members, so a std::unique_ptr move is the        *)
(* sequence of pointer reads and writes it compiles to; only modelPending_ *)
(* is a std::atomic.                                                       *)
(***************************************************************************)
EXTENDS Integers, Sequences, FiniteSets, TLC

\* ------------------------------------------------------------------ bounds
MaxCalls == 2
NumSamples == 2
MaxResets == 2
MaxBlocks == 2

\* --------------------------------------------------------------- constants
NoModel == 0
Unity == 1000
kMaxStages == 16
kMaxControllers == 4

NoPath == ""
GoodPaths == {"a.nam", "b.nam"}
ThrowPaths == {"bad.nam"}
NullPaths == {"null.nam"}
LoadPaths == GoodPaths \cup ThrowPaths \cup NullPaths
Models == 1..MaxCalls
Loaders == {"ctl", "bg", "host"}

VARIABLES
    \* NamStage members
    model_, currentModelPath_, pendingModel_, pendingModelPath_, modelPending_,
    maxBlockSize_, inputGainLinear_, outputGainLinear_, outputBuffer_,
    \* heap of NeuralModel objects and the library's static default
    alive, mPath, mBufSize, defaultMaxAudioBufferSize,
    \* loadModel / unloadModel callers (one record per calling thread)
    lpc, lpath, lraw, lold, lres,
    \* audio thread inside NamStage::process
    apc, atmp, buffer, bufferIn,
    \* history
    epoch, allOk, lastStaged, lastKind, procEpoch, doneEpoch,
    released, acquired, staged, memErr,
    \* Pipeline members
    stages_, controllers_, numStages_, numControllers_, sampleRate_,
    pipeMaxBlockSize_,
    \* audio thread inside Pipeline::process
    ppc, ps, pcx, pbuf, pbufIn, callLog,
    \* the prepare calls the last Pipeline::prepare made on its stages, and the
    \* reset calls of a Pipeline::reset that has just returned
    prepLog, resetLog,
    \* HexCasterLV2 members, the audio thread inside run(), the loader thread
    prevReloadValue, loadRequested_, loadComplete_, pendingLoadPath_,
    loaderThread_, rpc, rcur, rpath, bgpc,
    \* ParamRegistry: the stored values, the control thread inside
    \* resetToDefaults, and the history of its calls
    values_, rstpc, rsti, lastCall, dirty, resetCount,
    \* GainStage: the atomic target, its ParamSmoother, and its last call
    targetGainLinear_, current_, target_, coeff_, gainCall,
    \* the audio thread inside GainStage::process, and the blocks it has begun
    gpc, gi, gbuf, gbufIn, gainBlocks,
    \* BloomController members, the targets of its two GainStages, and the
    \* history of which block's envelope each target came from
    preStageIndex_, postStageIndex_, envelope_, legTarget, legBlockTarget,
    envelopeBlock, targetBlock, readBlock, pushed, bloomBlocks

namVars == <<model_, currentModelPath_, pendingModel_, pendingModelPath_,
             modelPending_, maxBlockSize_, inputGainLinear_, outputGainLinear_,
             outputBuffer_, alive, mPath, mBufSize, defaultMaxAudioBufferSize, lpc, lpath, lraw, lold, lres,
             apc, atmp, buffer, bufferIn, epoch, allOk, lastStaged, lastKind,
             procEpoch, doneEpoch, released, acquired, staged, memErr>>

pipeVars == <<stages_, controllers_, numStages_, numControllers_, sampleRate_,
              pipeMaxBlockSize_, ppc, ps, pcx, pbuf, pbufIn, callLog, prepLog,
              resetLog>>

hostVars == <<prevReloadValue, loadRequested_, loadComplete_, pendingLoadPath_,
              loaderThread_, rpc, rcur, rpath, bgpc>>

paramVars == <<values_, rstpc, rsti, lastCall, dirty, resetCount>>

gainVars == <<targetGainLinear_, current_, target_, coeff_, gainCall, gpc, gi,
              gbuf, gbufIn>>

bloomVars == <<preStageIndex_, postStageIndex_, envelope_, legTarget,
               legBlockTarget, envelopeBlock, targetBlock, readBlock, pushed,
               bloomBlocks>>

\* What hasModel(), modelPath() and the sound of later blocks depend on.
namObservable == <<model_, currentModelPath_, pendingModel_, pendingModelPath_,
                   modelPending_, inputGainLinear_, outputGainLinear_>>

memberVars == <<model_, currentModelPath_, pendingModel_, pendingModelPath_,
                modelPending_, inputGainLinear_, outputGainLinear_>>
heapVars == <<alive, mPath, mBufSize, defaultMaxAudioBufferSize>>
loaderVars == <<lpc, lpath, lraw, lold, lres>>
audioVars == <<apc, atmp, buffer, bufferIn, outputBuffer_>>
callHist == <<epoch, allOk, lastStaged, lastKind>>
blockHist == <<procEpoch, doneEpoch>>
syncHist == <<released, acquired>>

\* ------------------------------------------------------- external library
\* NeuralAudio::NeuralModel::CreateFromFile: throws, returns null, or a model.
CreateFromFile(path) ==
    IF path \in ThrowPaths THEN "throw"
    ELSE IF path \in NullPaths THEN "null"
    ELSE "ok"

\* GetRecommendedInputDBAdjustment / GetRecommendedOutputDBAdjustment.
RecommendedInputDb(path) == IF path = "b.nam" THEN -6 ELSE 0
RecommendedOutputDb(path) == IF path = "b.nam" THEN 6 ELSE 0

\* std::pow(10.f, dB / 20.f), in thousandths.
DbToLinearNam(db) ==
    CASE db = 0 -> Unity
      [] db = -6 -> 501
      [] db = 6 -> 1995

\* NeuralModel::Process on one sample: never the identity.
ModelTransfer(path, x) == IF path = "b.nam" THEN 2 * x + 1 ELSE x + 7

Zeros == [i \in 1..NumSamples |-> 0]
InputBlocks == {[i \in 1..NumSamples |-> 1000 * i]}

\* ------------------------------------------------------------- NamStage
hasModel == model_ # NoModel
modelPath == currentModelPath_

AllIdle == \A t \in Loaders : lpc[t] = "idle"

\* A NamStage after construction (maxBlockSize 0) or after prepare(_, n).
NamConstructed(n) ==
    /\ model_ = NoModel
    /\ currentModelPath_ = NoPath
    /\ pendingModel_ = NoModel
    /\ pendingModelPath_ = NoPath
    /\ modelPending_ = FALSE
    /\ maxBlockSize_ = n
    /\ inputGainLinear_ = Unity
    /\ outputGainLinear_ = Unity
    /\ outputBuffer_ = [i \in 1..n |-> 0]
    /\ alive = {}
    /\ mPath = [m \in Models |-> NoPath]
    /\ mBufSize = [m \in Models |-> 0]
    /\ defaultMaxAudioBufferSize = n
    /\ lpc = [t \in Loaders |-> "idle"]
    /\ lpath = [t \in Loaders |-> NoPath]
    /\ lraw = [t \in Loaders |-> NoModel]
    /\ lold = [t \in Loaders |-> NoModel]
    /\ lres = [t \in Loaders |-> TRUE]
    /\ apc = "idle"
    /\ atmp = NoModel
    /\ buffer = Zeros
    /\ bufferIn = Zeros
    /\ epoch = 0
    /\ allOk = TRUE
    /\ lastStaged = NoModel
    /\ lastKind = "none"
    /\ procEpoch = -1
    /\ doneEpoch = -1
    /\ released = {}
    /\ acquired = {}
    /\ staged = {}
    /\ memErr = FALSE

NamInit == NamConstructed(0)

\* NamStage::prepare
NamPrepare(n) ==
    /\ maxBlockSize_' = n
    /\ defaultMaxAudioBufferSize' = n
    /\ outputBuffer_' = [i \in 1..n |-> 0]
    /\ mBufSize' = IF model_ # NoModel THEN [mBufSize EXCEPT ![model_] = n]
                   ELSE mBufSize

\* delete of a NeuralModel: a second delete of the same object is a memory error.
Delete(m) ==
    /\ alive' = alive \ {m}
    /\ memErr' = (memErr \/ (m # NoModel /\ m \notin alive))

\* ---- loadModel, one step per access to a member shared with the audio thread
FreshModel == CHOOSE m \in Models : mPath[m] = NoPath /\ \A k \in Models : mPath[k] = NoPath => m <= k

\* Entry into loadModel(path) on thread t.
EnterLoad(t, path) ==
    /\ lpc[t] = "idle"
    /\ epoch < MaxCalls
    /\ lpc' = [lpc EXCEPT ![t] = "create"]
    /\ lpath' = [lpath EXCEPT ![t] = path]
    /\ epoch' = epoch + 1

\* Entry into unloadModel() on thread t.
EnterUnload(t) ==
    /\ lpc[t] = "idle"
    /\ epoch < MaxCalls
    /\ lpc' = [lpc EXCEPT ![t] = "u_read"]
    /\ lpath' = [lpath EXCEPT ![t] = NoPath]
    /\ epoch' = epoch + 1

\* A failure path that stages "no model" the way unloadModel does.
LoadFailStagesEmpty(t) ==
    /\ lpc' = [lpc EXCEPT ![t] = "idle"]
    /\ lres' = [lres EXCEPT ![t] = FALSE]
    /\ allOk' = FALSE
    /\ modelPending_' = TRUE
    /\ UNCHANGED <<model_, currentModelPath_, pendingModel_, pendingModelPath_,
                   inputGainLinear_, outputGainLinear_, heapVars, maxBlockSize_,
                   lpath, lraw, lold, audioVars, epoch, lastStaged, lastKind,
                   blockHist, syncHist, staged, memErr>>

\* CreateFromFile threw or returned null: return false.
LoadFail(t) ==
    /\ lpc' = [lpc EXCEPT ![t] = "idle"]
    /\ lres' = [lres EXCEPT ![t] = FALSE]
    /\ allOk' = FALSE
    /\ UNCHANGED <<memberVars, heapVars, maxBlockSize_, lpath, lraw, lold,
                   audioVars, epoch, lastStaged, lastKind, blockHist, syncHist,
                   staged, memErr>>

\* CreateFromFile returned a model: newModel owns it.
LoadCreated(t) ==
    /\ lpc' = [lpc EXCEPT ![t] = "config"]
    /\ lraw' = [lraw EXCEPT ![t] = FreshModel]
    /\ alive' = alive \cup {FreshModel}
    /\ mPath' = [mPath EXCEPT ![FreshModel] = lpath[t]]
    /\ mBufSize' = [mBufSize EXCEPT ![FreshModel] = defaultMaxAudioBufferSize]
    /\ UNCHANGED <<memberVars, defaultMaxAudioBufferSize, maxBlockSize_, lpath,
                   lold, lres, audioVars, callHist, blockHist, syncHist, staged,
                   memErr>>

LoadCreate(t) ==
    /\ lpc[t] = "create"
    /\ IF CreateFromFile(lpath[t]) = "ok" THEN LoadCreated(t) ELSE LoadFail(t)

\* if (maxBlockSize_ > 0) newModel->SetMaxAudioBufferSize(maxBlockSize_)
LoadConfig(t) ==
    /\ lpc[t] = "config"
    /\ lpc' = [lpc EXCEPT ![t] = "st_read"]
    /\ mBufSize' = IF maxBlockSize_ > 0
                   THEN [mBufSize EXCEPT ![lraw[t]] = maxBlockSize_]
                   ELSE mBufSize
    /\ UNCHANGED <<memberVars, alive, mPath, defaultMaxAudioBufferSize,
                   maxBlockSize_, lpath, lraw, lold, lres, audioVars, callHist,
                   blockHist, syncHist, staged, memErr>>

\* pendingModel_ = std::move(newModel): read the old pointer ...
LoadStoreRead(t) ==
    /\ lpc[t] = "st_read"
    /\ lpc' = [lpc EXCEPT ![t] = "st_write"]
    /\ lold' = [lold EXCEPT ![t] = pendingModel_]
    /\ UNCHANGED <<memberVars, heapVars, maxBlockSize_, lpath, lraw, lres,
                   audioVars, callHist, blockHist, syncHist, staged, memErr>>

\* ... write the new pointer ...
LoadStoreWrite(t) ==
    /\ lpc[t] = "st_write"
    /\ lpc' = [lpc EXCEPT ![t] = "st_delete"]
    /\ pendingModel_' = lraw[t]
    /\ staged' = staged \cup {lraw[t]}
    /\ UNCHANGED <<model_, currentModelPath_, pendingModelPath_, modelPending_,
                   inputGainLinear_, outputGainLinear_, heapVars, maxBlockSize_,
                   lpath, lraw, lold, lres, audioVars, callHist, blockHist,
                   syncHist, memErr>>

\* ... and delete the model the slot held before.
LoadStoreDelete(t) ==
    /\ lpc[t] = "st_delete"
    /\ lpc' = [lpc EXCEPT ![t] = "st_path"]
    /\ Delete(lold[t])
    /\ lold' = [lold EXCEPT ![t] = NoModel]
    /\ UNCHANGED <<memberVars, mPath, mBufSize, defaultMaxAudioBufferSize,
                   maxBlockSize_, lpath, lraw, lres, audioVars, callHist,
                   blockHist, syncHist, staged>>

\* pendingModelPath_ = path
LoadStorePath(t) ==
    /\ lpc[t] = "st_path"
    /\ lpc' = [lpc EXCEPT ![t] = "st_flag"]
    /\ pendingModelPath_' = lpath[t]
    /\ UNCHANGED <<model_, currentModelPath_, pendingModel_, modelPending_,
                   inputGainLinear_, outputGainLinear_, heapVars, maxBlockSize_,
                   lpath, lraw, lold, lres, audioVars, callHist, blockHist,
                   syncHist, staged, memErr>>

\* modelPending_.store(true, release); return true
LoadRaiseFlag(t) ==
    /\ lpc[t] = "st_flag"
    /\ lpc' = [lpc EXCEPT ![t] = "idle"]
    /\ modelPending_' = TRUE
    /\ released' = released \cup {lraw[t]}
    /\ lres' = [lres EXCEPT ![t] = TRUE]
    /\ lastStaged' = lraw[t]
    /\ lastKind' = "load"
    /\ UNCHANGED <<model_, currentModelPath_, pendingModel_, pendingModelPath_,
                   inputGainLinear_, outputGainLinear_, heapVars, maxBlockSize_,
                   lpath, lraw, lold, audioVars, epoch, allOk, blockHist,
                   acquired, staged, memErr>>

\* ---- unloadModel
\* pendingModel_.reset(): read the old pointer ...
UnloadRead(t) ==
    /\ lpc[t] = "u_read"
    /\ lpc' = [lpc EXCEPT ![t] = "u_write"]
    /\ lold' = [lold EXCEPT ![t] = pendingModel_]
    /\ UNCHANGED <<memberVars, heapVars, maxBlockSize_, lpath, lraw, lres,
                   audioVars, callHist, blockHist, syncHist, staged, memErr>>

\* ... write null ...
UnloadWrite(t) ==
    /\ lpc[t] = "u_write"
    /\ lpc' = [lpc EXCEPT ![t] = "u_delete"]
    /\ pendingModel_' = NoModel
    /\ UNCHANGED <<model_, currentModelPath_, pendingModelPath_, modelPending_,
                   inputGainLinear_, outputGainLinear_, heapVars, maxBlockSize_,
                   lpath, lraw, lold, lres, audioVars, callHist, blockHist,
                   syncHist, staged, memErr>>

\* ... and delete the model the slot held.
UnloadDelete(t) ==
    /\ lpc[t] = "u_delete"
    /\ lpc' = [lpc EXCEPT ![t] = "u_path"]
    /\ Delete(lold[t])
    /\ lold' = [lold EXCEPT ![t] = NoModel]
    /\ UNCHANGED <<memberVars, mPath, mBufSize, defaultMaxAudioBufferSize,
                   maxBlockSize_, lpath, lraw, lres, audioVars, callHist,
                   blockHist, syncHist, staged>>

\* pendingModelPath_.clear()
UnloadPath(t) ==
    /\ lpc[t] = "u_path"
    /\ lpc' = [lpc EXCEPT ![t] = "u_flag"]
    /\ pendingModelPath_' = NoPath
    /\ UNCHANGED <<model_, currentModelPath_, pendingModel_, modelPending_,
                   inputGainLinear_, outputGainLinear_, heapVars, maxBlockSize_,
                   lpath, lraw, lold, lres, audioVars, callHist, blockHist,
                   syncHist, staged, memErr>>

\* modelPending_.store(true, release)
UnloadRaiseFlag(t) ==
    /\ lpc[t] = "u_flag"
    /\ lpc' = [lpc EXCEPT ![t] = "idle"]
    /\ modelPending_' = TRUE
    /\ lastStaged' = NoModel
    /\ lastKind' = "unload"
    /\ UNCHANGED <<model_, currentModelPath_, pendingModel_, pendingModelPath_,
                   inputGainLinear_, outputGainLinear_, heapVars, maxBlockSize_,
                   lpath, lraw, lold, lres, audioVars, epoch, allOk, blockHist,
                   syncHist, staged, memErr>>

\* ---- NamStage::process on the audio thread
ApplyGain(buf, g) == [i \in DOMAIN buf |-> (buf[i] * g) \div Unity]
Infer(m, buf) == [i \in DOMAIN buf |-> ModelTransfer(mPath[m], buf[i])]

\* Entry into process(buffer, numSamples).
ProcessBegin(in) ==
    /\ apc = "idle"
    /\ maxBlockSize_ > 0
    /\ apc' = "check"
    /\ buffer' = in
    /\ bufferIn' = in
    /\ procEpoch' = IF AllIdle THEN epoch ELSE -1
    /\ UNCHANGED <<memberVars, heapVars, maxBlockSize_, loaderVars, atmp,
                   outputBuffer_, callHist, doneEpoch, syncHist, staged, memErr>>

\* if (modelPending_.load(acquire))
ProcessCheckPending ==
    /\ apc = "check"
    /\ apc' = IF modelPending_ THEN "rel_read" ELSE "run"
    /\ acquired' = IF modelPending_ THEN released ELSE acquired
    /\ UNCHANGED <<memberVars, heapVars, maxBlockSize_, loaderVars, atmp, buffer,
                   bufferIn, outputBuffer_, callHist, blockHist, released, staged,
                   memErr>>

\* model_ = std::move(pendingModel_): pendingModel_.release() reads the pointer ...
ApplyReleaseRead ==
    /\ apc = "rel_read"
    /\ apc' = "rel_null"
    /\ atmp' = pendingModel_
    /\ UNCHANGED <<memberVars, heapVars, maxBlockSize_, loaderVars, buffer,
                   bufferIn, outputBuffer_, callHist, blockHist, syncHist, staged,
                   memErr>>

\* ... and nulls the pending slot;
ApplyReleaseNull ==
    /\ apc = "rel_null"
    /\ apc' = "reset"
    /\ pendingModel_' = NoModel
    /\ UNCHANGED <<model_, currentModelPath_, pendingModelPath_, modelPending_,
                   inputGainLinear_, outputGainLinear_, heapVars, maxBlockSize_,
                   loaderVars, atmp, buffer, bufferIn, outputBuffer_, callHist,
                   blockHist, syncHist, staged, memErr>>

\* model_.reset(p) stores it and deletes the model that was active.
ApplyReset ==
    /\ apc = "reset"
    /\ apc' = "move_path"
    /\ model_' = atmp
    /\ atmp' = NoModel
    /\ Delete(model_)
    /\ UNCHANGED <<currentModelPath_, pendingModel_, pendingModelPath_,
                   modelPending_, inputGainLinear_, outputGainLinear_, mPath,
                   mBufSize, defaultMaxAudioBufferSize, maxBlockSize_, loaderVars,
                   buffer, bufferIn, outputBuffer_, callHist, blockHist, syncHist,
                   staged>>

\* currentModelPath_ = std::move(pendingModelPath_)
ApplyMovePath ==
    /\ apc = "move_path"
    /\ apc' = "clear_flag"
    /\ currentModelPath_' = pendingModelPath_
    /\ pendingModelPath_' = NoPath
    /\ UNCHANGED <<model_, pendingModel_, modelPending_, inputGainLinear_,
                   outputGainLinear_, heapVars, maxBlockSize_, loaderVars, atmp,
                   buffer, bufferIn, outputBuffer_, callHist, blockHist, syncHist,
                   staged, memErr>>

\* modelPending_.store(false, release)
ApplyClearFlag ==
    /\ apc = "clear_flag"
    /\ apc' = "calib"
    /\ modelPending_' = FALSE
    /\ UNCHANGED <<model_, currentModelPath_, pendingModel_, pendingModelPath_,
                   inputGainLinear_, outputGainLinear_, heapVars, maxBlockSize_,
                   loaderVars, atmp, buffer, bufferIn, outputBuffer_, callHist,
                   blockHist, syncHist, staged, memErr>>

\* What the getters of a model deleted under the audio thread can return:
\* whatever its memory now holds.
FreedModelGains == {Unity, 501}

\* updateCalibration()
updateCalibration ==
    /\ apc = "calib"
    /\ apc' = "run"
    /\ IF model_ = NoModel
       THEN inputGainLinear_' = Unity /\ outputGainLinear_' = Unity
       ELSE IF model_ \in alive
            THEN /\ inputGainLinear_' = DbToLinearNam(RecommendedInputDb(mPath[model_]))
                 /\ outputGainLinear_' = DbToLinearNam(RecommendedOutputDb(mPath[model_]))
            ELSE \E g \in FreedModelGains :
                     inputGainLinear_' = g /\ outputGainLinear_' = g
    /\ memErr' = (memErr \/ (model_ # NoModel /\ model_ \notin alive))
    /\ UNCHANGED <<model_, currentModelPath_, pendingModel_, pendingModelPath_,
                   modelPending_, heapVars, maxBlockSize_, loaderVars, atmp,
                   buffer, bufferIn, outputBuffer_, callHist, blockHist, syncHist,
                   staged>>

\* A stage that mutes the block when it has no model.
Mute(buf) == [i \in DOMAIN buf |-> 0]

\* if (!model_) return;  -- the buffer is not touched.
PassThrough(buf) == buf

\* Input calibration, inference into outputBuffer_, output calibration.
Inference(buf) ==
    Infer(model_, IF inputGainLinear_ # Unity THEN ApplyGain(buf, inputGainLinear_)
                  ELSE buf)

RunModel(buf) ==
    IF outputGainLinear_ # Unity THEN ApplyGain(Inference(buf), outputGainLinear_)
    ELSE Inference(buf)

\* A process that looks at the pending flag again before its samples.
ProcessRunChecksAgain ==
    /\ apc = "run"
    /\ IF modelPending_
       THEN /\ apc' = "rel_read"
            /\ UNCHANGED <<buffer, outputBuffer_, memErr>>
       ELSE /\ apc' = "done"
            /\ IF model_ = NoModel
               THEN /\ buffer' = PassThrough(buffer)
                    /\ UNCHANGED <<outputBuffer_, memErr>>
               ELSE /\ buffer' = RunModel(buffer)
                    /\ outputBuffer_' = Inference(buffer)
                    /\ UNCHANGED memErr
    /\ UNCHANGED <<memberVars, heapVars, maxBlockSize_, loaderVars, atmp,
                   bufferIn, callHist, blockHist, syncHist, staged>>

\* The rest of process(): pass through, or run the active model.  A model that
\* was deleted under the audio thread yields whatever its memory now holds.
ProcessRun ==
    /\ apc = "run"
    /\ apc' = "done"
    /\ IF model_ = NoModel
       THEN /\ buffer' = PassThrough(buffer)
            /\ UNCHANGED <<outputBuffer_, memErr>>
       ELSE IF model_ \in alive
            THEN /\ buffer' = RunModel(buffer)
                 /\ outputBuffer_' = Inference(buffer)
                 /\ UNCHANGED memErr
            ELSE /\ buffer' \in {RunModel(buffer), Zeros}
                 /\ outputBuffer_' = Inference(buffer)
                 /\ memErr' = TRUE
    /\ UNCHANGED <<memberVars, heapVars, maxBlockSize_, loaderVars, atmp,
                   bufferIn, callHist, blockHist, syncHist, staged>>

\* process() returns.
ProcessEnd ==
    /\ apc = "done"
    /\ apc' = "idle"
    /\ doneEpoch' = procEpoch
    /\ UNCHANGED <<memberVars, heapVars, maxBlockSize_, loaderVars, atmp, buffer,
                   bufferIn, outputBuffer_, callHist, procEpoch, syncHist, staged,
                   memErr>>

\* ------------------------------------------------------------- Pipeline
NullPtr == 0
SampleRates == {48000}
PipeInputs == {100}

\* A Pipeline holding the first n stage objects, prepared with (sr, mbs).
PipeConstructed(n, sr, mbs) ==
    /\ stages_ = [i \in 0..(kMaxStages - 1) |-> IF i < n THEN i + 1 ELSE NullPtr]
    /\ controllers_ = [i \in 0..(kMaxControllers - 1) |-> NullPtr]
    /\ numStages_ = n
    /\ numControllers_ = 0
    /\ sampleRate_ = sr
    /\ pipeMaxBlockSize_ = mbs
    /\ ppc = "idle"
    /\ ps = 0
    /\ pcx = 0
    /\ pbuf = 0
    /\ pbufIn = 0
    /\ callLog = <<>>
    /\ prepLog = [i \in 1..n |-> <<i, sr, mbs>>]
    /\ resetLog = <<>>

PipeInit == PipeConstructed(0, 0, 0)

numStages == numStages_
numControllers == numControllers_

\* Pipeline::addStage.  The two preconditions are assert()s: where one fails the
\* program aborts if assertions are compiled in, and under NDEBUG (the Release
\* configuration the README builds) the assert is empty and line 10 runs
\* unchecked: a null pointer is stored and counted, and with the array full the
\* store goes past stages_ and the count past kMaxStages.  The program is
\* followed no further after either.
addStage(stage) ==
    /\ ppc = "idle"
    /\ IF numStages_ < kMaxStages /\ stage # NullPtr
       THEN /\ stages_' = [stages_ EXCEPT ![numStages_] = stage]
            /\ numStages_' = numStages_ + 1
            /\ UNCHANGED ppc
       ELSE \/ /\ ppc' = "aborted"
               /\ UNCHANGED <<stages_, numStages_>>
            \/ /\ ppc' = "unchecked"
               /\ stages_' = IF numStages_ < kMaxStages
                             THEN [stages_ EXCEPT ![numStages_] = stage]
                             ELSE stages_
               /\ numStages_' = numStages_ + 1
    /\ resetLog' = <<>>
    /\ UNCHANGED <<controllers_, numControllers_, sampleRate_, pipeMaxBlockSize_,
                   ps, pcx, pbuf, pbufIn, callLog, prepLog>>

\* Pipeline::addController, with the same two assert()s.
addController(controller) ==
    /\ ppc = "idle"
    /\ IF numControllers_ < kMaxControllers /\ controller # NullPtr
       THEN /\ controllers_' = [controllers_ EXCEPT ![numControllers_] = controller]
            /\ numControllers_' = numControllers_ + 1
            /\ UNCHANGED ppc
       ELSE \/ /\ ppc' = "aborted"
               /\ UNCHANGED <<controllers_, numControllers_>>
            \/ /\ ppc' = "unchecked"
               /\ controllers_' = IF numControllers_ < kMaxControllers
                                  THEN [controllers_ EXCEPT ![numControllers_] = controller]
                                  ELSE controllers_
               /\ numControllers_' = numControllers_ + 1
    /\ resetLog' = <<>>
    /\ UNCHANGED <<stages_, numStages_, sampleRate_, pipeMaxBlockSize_, ps, pcx,
                   pbuf, pbufIn, callLog, prepLog>>

\* A forwarding loop that runs from the last stage down to the first.
ForwardLoopReversed == [i \in 1..numStages_ |-> stages_[numStages_ - i]]
\* for (int i = 0; i < numStages_; ++i) stages_[i]->...: the stages the loop of
\* prepare and of reset visits, in the order it visits them.
ForwardLoop == [i \in 1..numStages_ |-> stages_[i - 1]]

\* Pipeline::prepare: the members are set and every stage's prepare is called,
\* in registration order, with the same arguments.
PipelinePrepare(sampleRate, maxBlockSize) ==
    /\ ppc = "idle"
    /\ sampleRate_' = sampleRate
    /\ pipeMaxBlockSize_' = maxBlockSize
    /\ prepLog' = [i \in 1..numStages_ |->
                      <<ForwardLoop[i], sampleRate, maxBlockSize>>]
    /\ resetLog' = <<>>
    /\ UNCHANGED <<stages_, controllers_, numStages_, numControllers_, ppc, ps,
                   pcx, pbuf, pbufIn, callLog>>

\* Pipeline::reset: every stage's reset is called; no member changes.
PipelineReset ==
    /\ ppc = "idle"
    /\ resetLog' = ForwardLoop
    /\ UNCHANGED <<stages_, controllers_, numStages_, numControllers_,
                   sampleRate_, pipeMaxBlockSize_, ppc, ps, pcx, pbuf, pbufIn,
                   callLog, prepLog>>

\* What the virtual calls do to the buffer.  A stage transforms it in place;
\* preProcess takes a const buffer; betweenStages may or may not write.
StageProcess(stage, x) == x + stage
BetweenEffects(x) == {x, x + 1}

\* A preProcess that writes the buffer it was given.
PreProcessWrites(x) == x + 1
\* preProcess(const float* buffer, int numSamples): the buffer is read only.
PreProcessEffect(x) == x

\* for (int c = 0; c < numControllers_; ++c)
ControllerLoopCond(c) == c < numControllers_

\* A stage loop that stops one stage early.
StageLoopSkipsLast(s) == s < numStages_ - 1
\* for (int s = 0; s < numStages_; ++s)
StageLoopCond(s) == s < numStages_

\* A process that notifies the controllers before the first stage has run.
HooksBeforeFirstStage == "between"
\* Where control goes when the preProcess loop is finished: the stage loop.
AfterPreLoop == "stage"

\* Entry into Pipeline::process(buffer, numSamples).
PipelineProcessBegin(in) ==
    /\ ppc = "idle"
    /\ pipeMaxBlockSize_ > 0
    /\ ppc' = "pre"
    /\ pcx' = 0
    /\ ps' = 0
    /\ pbuf' = in
    /\ pbufIn' = in
    /\ callLog' = <<>>
    /\ resetLog' = <<>>
    /\ UNCHANGED <<stages_, controllers_, numStages_, numControllers_,
                   sampleRate_, pipeMaxBlockSize_, prepLog>>

\* Loop 1: controllers_[c]->preProcess(buffer, numSamples)
PipelinePreProcess ==
    /\ ppc = "pre"
    /\ IF ControllerLoopCond(pcx)
       THEN /\ callLog' = Append(callLog, <<"preProcess", pcx>>)
            /\ pbuf' = PreProcessEffect(pbuf)
            /\ pcx' = pcx + 1
            /\ UNCHANGED ppc
       ELSE /\ ppc' = AfterPreLoop
            /\ pcx' = 0
            /\ UNCHANGED <<callLog, pbuf>>
    /\ UNCHANGED <<stages_, controllers_, numStages_, numControllers_,
                   sampleRate_, pipeMaxBlockSize_, ps, pbufIn, prepLog, resetLog>>

\* Loop 2: stages_[s]->process(buffer, numSamples)
PipelineStage ==
    /\ ppc = "stage"
    /\ IF StageLoopCond(ps)
       THEN /\ callLog' = Append(callLog, <<"process", ps>>)
            /\ pbuf' = StageProcess(stages_[ps], pbuf)
            /\ ppc' = "between"
            /\ pcx' = 0
       ELSE /\ ppc' = "done"
            /\ UNCHANGED <<callLog, pbuf, pcx>>
    /\ UNCHANGED <<stages_, controllers_, numStages_, numControllers_,
                   sampleRate_, pipeMaxBlockSize_, ps, pbufIn, prepLog, resetLog>>

\* Inner loop: controllers_[c]->betweenStages(s, buffer, numSamples), then ++s
PipelineBetweenStages ==
    /\ ppc = "between"
    /\ IF ControllerLoopCond(pcx)
       THEN /\ callLog' = Append(callLog, <<"betweenStages", pcx, ps>>)
            /\ pbuf' \in BetweenEffects(pbuf)
            /\ pcx' = pcx + 1
            /\ UNCHANGED <<ppc, ps>>
       ELSE /\ ppc' = "stage"
            /\ ps' = ps + 1
            /\ pcx' = 0
            /\ UNCHANGED <<callLog, pbuf>>
    /\ UNCHANGED <<stages_, controllers_, numStages_, numControllers_,
                   sampleRate_, pipeMaxBlockSize_, pbufIn, prepLog, resetLog>>

\* Pipeline::process returns; its loop counters and the log of its calls end.
PipelineProcessEnd ==
    /\ ppc = "done"
    /\ ppc' = "idle"
    /\ ps' = 0
    /\ pcx' = 0
    /\ callLog' = <<>>
    /\ UNCHANGED <<stages_, controllers_, numStages_, numControllers_,
                   sampleRate_, pipeMaxBlockSize_, pbuf, pbufIn, prepLog,
                   resetLog>>

\* ---------------------------------------------------------- LV2 host
Below == 0
Above == 1
ReloadValues == {Below, Above}

HostInit ==
    /\ prevReloadValue = Below
    /\ loadRequested_ = FALSE
    /\ loadComplete_ = FALSE
    /\ pendingLoadPath_ = NoPath
    /\ loaderThread_ = "none"
    /\ rpc = "idle"
    /\ rcur = Below
    /\ rpath = NoPath
    /\ bgpc = "none"

\* A trigger on the level of the control instead of its edge.
LevelTriggered(cur, prev) == cur = Above
\* cur >= 0.5f && prevReloadValue < 0.5f
RisingEdge(cur, prev) == cur = Above /\ prev = Below

\* run(), up to the call of triggerLoad: the Model Reload port is read and, on
\* a rising edge, the sidecar file; a non-empty path triggers a load.
RunBegin(cur, sidecar) ==
    /\ rpc = "idle"
    /\ lpc["host"] = "idle"
    /\ rcur' = cur
    /\ IF RisingEdge(cur, prevReloadValue)
       THEN /\ rpath' = sidecar
            /\ IF sidecar # NoPath
               THEN epoch < MaxCalls /\ rpc' = "join"
               ELSE rpc' = "copy"
       ELSE rpc' = "copy" /\ rpath' = NoPath
    /\ UNCHANGED <<prevReloadValue, loadRequested_, loadComplete_,
                   pendingLoadPath_, loaderThread_, bgpc>>
    /\ UNCHANGED <<namVars, pipeVars, paramVars, gainVars, gainBlocks, bloomVars>>

\* triggerLoad: if (loaderThread_.joinable()) loaderThread_.join();
\* the caller, here the audio thread, waits until the loader has finished.
TriggerJoin ==
    /\ rpc = "join"
    /\ loaderThread_ # "running"
    /\ loaderThread_' = "none"
    /\ rpc' = "spawn"
    /\ UNCHANGED <<prevReloadValue, loadRequested_, loadComplete_,
                   pendingLoadPath_, rcur, rpath, bgpc>>
    /\ UNCHANGED <<namVars, pipeVars, paramVars, gainVars, gainBlocks, bloomVars>>

\* triggerLoad: publish the path and start the loader thread.
TriggerSpawn ==
    /\ rpc = "spawn"
    /\ pendingLoadPath_' = rpath
    /\ loadComplete_' = FALSE
    /\ loadRequested_' = TRUE
    /\ loaderThread_' = "running"
    /\ bgpc' = "start"
    /\ rpc' = "copy"
    /\ UNCHANGED <<prevReloadValue, rcur, rpath>>
    /\ UNCHANGED <<namVars, pipeVars, paramVars, gainVars, gainBlocks, bloomVars>>

\* Loader thread: p = pendingLoadPath_; nam.loadModel(p) is entered.
LoaderStart ==
    /\ bgpc = "start"
    /\ bgpc' = "loading"
    /\ EnterLoad("bg", pendingLoadPath_)
    /\ UNCHANGED <<memberVars, heapVars, maxBlockSize_, lraw, lold, lres,
                   audioVars, allOk, lastStaged, lastKind, blockHist, syncHist,
                   staged, memErr>>
    /\ UNCHANGED <<prevReloadValue, loadRequested_, loadComplete_,
                   pendingLoadPath_, loaderThread_, rpc, rcur, rpath>>
    /\ UNCHANGED <<pipeVars, paramVars, gainVars, gainBlocks, bloomVars>>

\* Loader thread: loadModel returned; loadComplete_.store(true); thread ends.
LoaderFinish ==
    /\ bgpc = "loading"
    /\ lpc["bg"] = "idle"
    /\ bgpc' = "none"
    /\ loadComplete_' = TRUE
    /\ loaderThread_' = "finished"
    /\ UNCHANGED <<prevReloadValue, loadRequested_, pendingLoadPath_, rpc, rcur,
                   rpath>>
    /\ UNCHANGED <<namVars, pipeVars, paramVars, gainVars, gainBlocks, bloomVars>>

\* run(): prevReloadValue = cur; memcpy(in -> out); pipeline.process enters
\* NamStage::process.  (The master GainStage runs first on the same thread; it
\* shares no state with the loader hand-off.)
RunProcess(in) ==
    /\ rpc = "copy"
    /\ rpc' = "process"
    /\ prevReloadValue' = rcur
    /\ ProcessBegin(in)
    /\ UNCHANGED <<loadRequested_, loadComplete_, pendingLoadPath_,
                   loaderThread_, rcur, rpath, bgpc>>
    /\ UNCHANGED <<pipeVars, paramVars, gainVars, gainBlocks, bloomVars>>

\* run() returns once pipeline.process has.
RunEnd ==
    /\ rpc = "process"
    /\ rpc' = "idle"
    /\ ProcessEnd
    /\ UNCHANGED <<prevReloadValue, loadRequested_, loadComplete_,
                   pendingLoadPath_, loaderThread_, rcur, rpath, bgpc>>
    /\ UNCHANGED <<pipeVars, paramVars, gainVars, gainBlocks, bloomVars>>

\* A cleanup that destroys the instance without waiting for the loader.
cleanupNoJoin ==
    /\ rpc = "idle"
    /\ lpc["host"] = "idle"
    /\ rpc' = "destroyed"
    /\ loaderThread_' = "none"
    /\ UNCHANGED <<prevReloadValue, loadRequested_, loadComplete_,
                   pendingLoadPath_, rcur, rpath, bgpc>>
    /\ UNCHANGED <<namVars, pipeVars, paramVars, gainVars, gainBlocks, bloomVars>>
\* cleanup(instance): ~HexCasterLV2 joins the loader thread if it is joinable,
\* waiting until it has finished; then the members, nam among them, are
\* destroyed and the memory is freed.  The host calls it when no other
\* callback runs.
cleanup ==
    /\ rpc = "idle"
    /\ lpc["host"] = "idle"
    /\ loaderThread_ # "running"
    /\ rpc' = "destroyed"
    /\ loaderThread_' = "none"
    /\ UNCHANGED <<prevReloadValue, loadRequested_, loadComplete_,
                   pendingLoadPath_, rcur, rpath, bgpc>>
    /\ UNCHANGED <<namVars, pipeVars, paramVars, gainVars, gainBlocks, bloomVars>>

\* state_restore on a host thread, never while run() executes: a retrieved,
\* non-empty path is loaded directly with nam.loadModel(path).
state_restore(path) ==
    /\ rpc = "idle"
    /\ EnterLoad("host", path)
    /\ UNCHANGED <<memberVars, heapVars, maxBlockSize_, lraw, lold, lres,
                   audioVars, allOk, lastStaged, lastKind, blockHist, syncHist,
                   staged, memErr>>
    /\ UNCHANGED <<hostVars, pipeVars, paramVars, gainVars, gainBlocks, bloomVars>>

\* -------------------------------------------------------- floating point
\* A float is a whole number of the unit of its quantity, or NaN.  Every
\* ordered comparison with NaN is false, as operator< on float is.
NaN == 2147483647
IsNaN(x) == x = NaN
FLess(a, b) == ~IsNaN(a) /\ ~IsNaN(b) /\ a < b

\* std::clamp(v, lo, hi) is (v < lo) ? lo : (hi < v) ? hi : v
StdClamp(v, lo, hi) ==
    IF FLess(v, lo) THEN lo ELSE IF FLess(hi, v) THEN hi ELSE v

\* std::max(a, b) is (a < b) ? b : a
StdMax(a, b) == IF FLess(a, b) THEN b ELSE a

\* -------------------------------------------------------- ParamRegistry
\* Parameter values are in tenths (MasterGain_dB 24 is 240, EnvAttackMs 0.1 is 1).
kNumParams == 43
\* The +-1e9 of an undeclared slot is 10^10 tenths, more than a 32-bit integer
\* holds; Far stands for it, beyond every value a caller passes but one.
Far == 2000000000

\* The enumerators of ParamId, by value.
DeclaredIds == (0..5) \cup (10..18) \cup {30} \cup (40..42)

\* kParamInfo[i]: every slot starts as {0, -1e9, 1e9}, then the declared
\* parameters are given their own triple.
Info(d, lo, hi) == [defaultValue |-> d, minValue |-> lo, maxValue |-> hi]
kParamInfo(i) ==
    CASE i \in {0, 1} -> Info(0, -240, 240)
      [] i = 2 -> Info(60, 0, 240)
      [] i = 3 -> Info(30, 0, 240)
      [] i = 4 -> Info(50, 1, 5000)
      [] i = 5 -> Info(1000, 10, 50000)
      [] i = 10 -> Info(1000, 200, 200000)
      [] i = 13 -> Info(10000, 200, 200000)
      [] i = 16 -> Info(80000, 200, 200000)
      [] i \in {11, 14, 17} -> Info(0, -240, 240)
      [] i \in {12, 15, 18} -> Info(10, 1, 100)
      [] i = 30 -> Info(0, -600, 240)
      [] i \in {40, 41} -> Info(5, 0, 10)
      [] i = 42 -> Info(0, 0, 10)
      [] OTHER -> Info(0, -Far, Far)

\* const int i = static_cast<int>(id); if (i < 0 || i >= kNumParams) return
\* (the ids passed here are below 2^31, where the cast keeps the value).
BadIndex(i) == i < 0 \/ i >= kNumParams

\* The ids and values the callers pass: two declared parameters, an undeclared
\* value between two groups, kCount, and a larger value; a value below every
\* range, 12, 999, and NaN.
ParamIds == {3, 6, 30, 43, 1000}
ParamValues == {-2100000000, 120, 9990, NaN}

\* ParamRegistry::ParamRegistry(): resetToDefaults() on the new object.
ParamConstructed ==
    /\ values_ = [i \in 0..(kNumParams - 1) |-> kParamInfo(i).defaultValue]
    /\ rstpc = "idle"
    /\ rsti = 0
    /\ lastCall = <<"ParamRegistry">>
    /\ dirty = FALSE
    /\ resetCount = 0

\* A set that only bounds the value from below.
ClampedFromBelow(i, value) ==
    IF FLess(value, kParamInfo(i).minValue) THEN kParamInfo(i).minValue ELSE value
\* const float clamped = std::clamp(value, info.minValue, info.maxValue);
Clamped(i, value) ==
    StdClamp(value, kParamInfo(i).minValue, kParamInfo(i).maxValue)

\* A set that also puts every other parameter back to its default.
setResetsOthers(id, value) ==
    /\ IF BadIndex(id)
       THEN UNCHANGED <<values_, dirty>>
       ELSE /\ values_' = [j \in DOMAIN values_ |->
                             IF j = id THEN Clamped(id, value)
                             ELSE kParamInfo(j).defaultValue]
            /\ dirty' = TRUE
    /\ lastCall' = <<"set", id, value>>
    /\ UNCHANGED <<rstpc, rsti, resetCount>>

\* ParamRegistry::set(id, value): one relaxed atomic store, or nothing.
set(id, value) ==
    /\ IF BadIndex(id)
       THEN UNCHANGED <<values_, dirty>>
       ELSE /\ values_' = [values_ EXCEPT ![id] = Clamped(id, value)]
            /\ dirty' = TRUE
    /\ lastCall' = <<"set", id, value>>
    /\ UNCHANGED <<rstpc, rsti, resetCount>>

\* ParamRegistry::get(id): one relaxed atomic load, or 0.
get(id) ==
    /\ lastCall' = <<"get", id,
                     IF BadIndex(id) THEN 0 ELSE values_[id]>>
    /\ UNCHANGED <<values_, rstpc, rsti, dirty, resetCount>>

\* A resetToDefaults that stores the lower end of the range.
StoresMinimum(i) == kParamInfo(i).minValue
\* values_[i].store(kParamInfo[i].defaultValue, ...)
DefaultOf(i) == kParamInfo(i).defaultValue

\* ParamRegistry::resetToDefaults(): kNumParams separate atomic stores.
resetToDefaultsBegin ==
    /\ rstpc = "idle"
    /\ resetCount < MaxResets
    /\ rstpc' = "loop"
    /\ rsti' = 0
    /\ dirty' = FALSE
    /\ resetCount' = resetCount + 1
    /\ lastCall' = <<"resetToDefaults">>
    /\ UNCHANGED values_

resetToDefaultsStore ==
    /\ rstpc = "loop"
    /\ IF rsti < kNumParams
       THEN /\ values_' = [values_ EXCEPT ![rsti] = DefaultOf(rsti)]
            /\ rsti' = rsti + 1
            /\ UNCHANGED rstpc
       ELSE /\ rstpc' = "idle"
            /\ rsti' = 0
            /\ UNCHANGED values_
    /\ lastCall' = <<"resetToDefaults">>
    /\ UNCHANGED <<dirty, resetCount>>

\* ------------------------------------------------------------ GainStage
\* Linear gains are in thousandths (1.0 is Unity), rounded down; decibels are
\* whole numbers.
kMinDb == -60
kMaxDb == 24
kMinLin == 1
kSmoothingMs == 10

\* dbToLinear(db) = std::pow(10.f, db / 20.f), at the decibel values used here.
dbToLinear(db) ==
    CASE IsNaN(db) -> NaN
      [] db = -100 -> 0
      [] db = -61 -> 0
      [] db = -60 -> 1
      [] db = -20 -> 100
      [] db = 0 -> 1000
      [] db = 24 -> 15849
      [] db = 25 -> 17783
      [] db = 100 -> 100000000

\* std::exp(-1.f / (tau * sampleRate)) with tau = smoothingMs / 1000, in
\* thousandths: exp(-1/480) = 0.99792.
ExpDecay(sampleRate, smoothingMs) ==
    CASE sampleRate = 48000 /\ smoothingMs = 10 -> 997

\* The arguments the callers pass.
DbInputs == {-100, -61, -60, -20, 0, 24, 25, 100, NaN}
LinearInputs == {-1000, 0, 1, 500, 1000, 15849, 100000, NaN}
GainSampleRates == {0, 48000}

\* GainStage::GainStage(), with the ParamSmoother's member initialisers.
GainConstructed ==
    /\ targetGainLinear_ = Unity
    /\ current_ = 0
    /\ target_ = 0
    /\ coeff_ = 0
    /\ gainCall = <<"GainStage">>
    /\ gpc = "idle"
    /\ gi = 1
    /\ gbuf = Zeros
    /\ gbufIn = Zeros
    /\ gainBlocks = 0

\* ParamSmoother::prepare(sampleRate, smoothingMs)
SmootherCoeff(sampleRate, smoothingMs) ==
    IF sampleRate > 0 /\ smoothingMs > 0
    THEN ExpDecay(sampleRate, smoothingMs)
    ELSE 0

\* A snap that sets the target and leaves the current value where it was.
SnapTargetOnly(value) ==
    /\ target_' = value
    /\ UNCHANGED current_
\* ParamSmoother::snap(value)
snap(value) ==
    /\ current_' = value
    /\ target_' = value

\* GainStage::prepare(sampleRate, maxBlockSize)
GainPrepare(sampleRate) ==
    /\ gpc = "idle"
    /\ coeff_' = SmootherCoeff(sampleRate, kSmoothingMs)
    /\ snap(targetGainLinear_)
    /\ gainCall' = <<"prepare", sampleRate>>
    /\ UNCHANGED <<targetGainLinear_, gpc, gi, gbuf, gbufIn>>

\* GainStage::reset()
GainReset ==
    /\ gpc = "idle"
    /\ snap(targetGainLinear_)
    /\ gainCall' = <<"reset">>
    /\ UNCHANGED <<targetGainLinear_, coeff_, gpc, gi, gbuf, gbufIn>>

\* A setGainDb that only bounds the decibels from below.
ClampDbFromBelow(db) == IF FLess(db, kMinDb) THEN kMinDb ELSE db
\* const float clamped = std::clamp(db, kMinDb, kMaxDb);
ClampDb(db) == StdClamp(db, kMinDb, kMaxDb)

\* GainStage::setGainDb(db)
setGainDb(db) ==
    /\ targetGainLinear_' = StdMax(dbToLinear(ClampDb(db)), kMinLin)
    /\ gainCall' = <<"setGainDb", db>>
    /\ UNCHANGED <<current_, target_, coeff_, gpc, gi, gbuf, gbufIn>>

\* GainStage::setGainLinear(linear)
setGainLinear(linear) ==
    /\ targetGainLinear_' = StdMax(linear, kMinLin)
    /\ gainCall' = <<"setGainLinear", linear>>
    /\ UNCHANGED <<current_, target_, coeff_, gpc, gi, gbuf, gbufIn>>

\* ParamSmoother::next(): current_ = coeff_ * current_ + (1.f - coeff_) * target_.
\* A float keeps seven significant digits, far more than this grid of
\* thousandths, so the result is rounded to the grid on the side of the target:
\* the smoothed value moves by at least one unit until it is the target.
Smooth(current, target, coeff) ==
    IF IsNaN(current) \/ IsNaN(target)
    THEN NaN
    ELSE IF target >= current
         THEN (coeff * current + (Unity - coeff) * target + Unity - 1) \div Unity
         ELSE (coeff * current + (Unity - coeff) * target) \div Unity

\* buffer[i] *= gain
FMul(x, g) == IF IsNaN(x) \/ IsNaN(g) THEN NaN ELSE (x * g) \div Unity

\* The blocks the audio thread passes: a constant unit input and a ramp.
GainInputs == {[i \in 1..NumSamples |-> Unity], [i \in 1..NumSamples |-> 500 * i]}

\* GainStage::process, lines 78-79: the atomic target is loaded and handed to
\* the smoother.
GainProcessBegin(in) ==
    /\ gpc = "idle"
    /\ target_' = targetGainLinear_
    /\ gpc' = "sample"
    /\ gi' = 1
    /\ gbuf' = in
    /\ gbufIn' = in
    /\ UNCHANGED <<targetGainLinear_, current_, coeff_, gainCall>>

\* A process that loads the atomic target again for every sample.
ReloadsAtomicTarget == targetGainLinear_
\* The target next() moves toward: the member setTarget wrote.
SampleTarget == target_

\* GainStage::process, lines 81-83: buffer[i] *= smoother_.next(), then return.
GainProcessSample ==
    /\ gpc = "sample"
    /\ IF gi <= Len(gbuf)
       THEN /\ target_' = SampleTarget
            /\ current_' = Smooth(current_, SampleTarget, coeff_)
            /\ gbuf' = [gbuf EXCEPT ![gi] = FMul(gbuf[gi], Smooth(current_, SampleTarget, coeff_))]
            /\ gi' = gi + 1
            /\ UNCHANGED gpc
       ELSE /\ gpc' = "idle"
            /\ UNCHANGED <<target_, current_, gbuf, gi>>
    /\ UNCHANGED <<targetGainLinear_, coeff_, gainCall, gbufIn>>


\* ------------------------------------------------------ BloomController
\* bloom_controller.h declares the class and says "Implementation: to be
\* added in Phase 1"; its behaviour below follows the class documentation and
\* the constructor's parameter documentation.
Legs == {"pre", "post"}

\* ParamId::BloomBasePre_dB, BloomBasePost_dB, BloomPreDepth, BloomPostDepth.
BloomBasePre_dB == 0
BloomBasePost_dB == 1
BloomPreDepth == 2
BloomPostDepth == 3

\* The envelope follower's output, a value in [0, 1], in thousandths.
Envelopes == {0, 500, 1000}
\* Registry values the control thread writes to the four Bloom parameters,
\* in tenths of a dB.
BloomValues == {240}

\* The two assemblies: (number of stages, index of the pre GainStage, index of
\* the post GainStage).  In the first the pre GainStage is the first stage.
Topologies == {<<3, 0, 2>>, <<4, 1, 3>>}

\* 10^(dB/20) for a gain in tenths of a dB, in thousandths.
BloomDbToLinear(db) ==
    CASE IsNaN(db) -> NaN
      [] db = -240 -> 63
      [] db = -180 -> 126
      [] db = -120 -> 251
      [] db = -60 -> 501
      [] db = -30 -> 708
      [] db = 0 -> 1000
      [] db = 15 -> 1189
      [] db = 30 -> 1413
      [] db = 60 -> 1995
      [] db = 75 -> 2371
      [] db = 90 -> 2818
      [] db = 120 -> 3981
      [] db = 180 -> 7943
      [] db = 210 -> 11220
      [] db = 240 -> 15849

\* depth * envelope, in tenths of a dB.
Scaled(depth, envelope) ==
    IF IsNaN(depth) \/ IsNaN(envelope) THEN NaN ELSE (depth * envelope) \div Unity

\* A pre gain that rises with the envelope.
PreGainRises(base, depth, envelope) ==
    IF IsNaN(base) \/ IsNaN(Scaled(depth, envelope)) THEN NaN
    ELSE StdClamp(base + Scaled(depth, envelope), kMinDb * 10, kMaxDb * 10)
\* PreGain_dB = BasePre - A * envelope, clamped to safe limits.
preGainDb(base, depth, envelope) ==
    IF IsNaN(base) \/ IsNaN(Scaled(depth, envelope)) THEN NaN
    ELSE StdClamp(base - Scaled(depth, envelope), kMinDb * 10, kMaxDb * 10)

\* PostGain_dB = BasePost + B * envelope, clamped to safe limits.
postGainDb(base, depth, envelope) ==
    IF IsNaN(base) \/ IsNaN(Scaled(depth, envelope)) THEN NaN
    ELSE StdClamp(base + Scaled(depth, envelope), kMinDb * 10, kMaxDb * 10)

\* BloomController(preGainStage, postGainStage, preStageIndex, postStageIndex,
\* registry) next to two freshly constructed GainStages.
BloomConstructed(pre, post) ==
    /\ preStageIndex_ = pre
    /\ postStageIndex_ = post
    /\ envelope_ = 0
    /\ legTarget = [l \in Legs |-> Unity]
    /\ legBlockTarget = [l \in Legs |-> Unity]
    /\ envelopeBlock = 0
    /\ targetBlock = [l \in Legs |-> 0]
    /\ readBlock = [l \in Legs |-> 0]
    /\ pushed = <<>>
    /\ bloomBlocks = 0

\* A prepared Pipeline of n stages with the BloomController registered.
BloomAssembled(n) ==
    /\ stages_ = [i \in 0..(kMaxStages - 1) |-> IF i < n THEN i + 1 ELSE NullPtr]
    /\ controllers_ = [i \in 0..(kMaxControllers - 1) |-> IF i = 0 THEN 1 ELSE NullPtr]
    /\ numStages_ = n
    /\ numControllers_ = 1
    /\ sampleRate_ = 48000
    /\ pipeMaxBlockSize_ = NumSamples
    /\ ppc = "idle"
    /\ ps = 0
    /\ pcx = 0
    /\ pbuf = 0
    /\ pbufIn = 0
    /\ callLog = <<>>
    /\ prepLog = [i \in 1..n |-> <<i, 48000, NumSamples>>]
    /\ resetLog = <<>>

\* preProcess(buffer, numSamples): runs the envelope follower on the input
\* and caches its value.
BloomPreProcess ==
    /\ \E e \in Envelopes : envelope_' = e
    /\ envelopeBlock' = bloomBlocks
    /\ UNCHANGED <<preStageIndex_, postStageIndex_, legTarget, legBlockTarget,
                   targetBlock, readBlock, pushed, bloomBlocks>>

\* GainStage::setGainLinear(linear) on the GainStage of one leg.
PushTarget(leg, db, base, depth) ==
    /\ legTarget' = [legTarget EXCEPT ![leg] = StdMax(BloomDbToLinear(db), kMinLin)]
    /\ targetBlock' = [targetBlock EXCEPT ![leg] = envelopeBlock]
    /\ pushed' = <<leg, db, base, depth, envelope_>>

\* betweenStages(stageIndex, buffer, numSamples): reads the registry and sets
\* the target of the GainStage whose injection point this is.  The constructor
\* documents preStageIndex as "controller injects after this - 1" and
\* postStageIndex as "controller injects after this".
BloomBetweenStages(stageIndex) ==
    /\ IF stageIndex = preStageIndex_ - 1
       THEN PushTarget("pre",
                       preGainDb(values_[BloomBasePre_dB], values_[BloomPreDepth], envelope_),
                       values_[BloomBasePre_dB], values_[BloomPreDepth])
       ELSE IF stageIndex = postStageIndex_
            THEN PushTarget("post",
                            postGainDb(values_[BloomBasePost_dB], values_[BloomPostDepth], envelope_),
                            values_[BloomBasePost_dB], values_[BloomPostDepth])
            ELSE UNCHANGED <<legTarget, targetBlock, pushed>>
    /\ UNCHANGED <<preStageIndex_, postStageIndex_, envelope_, legBlockTarget,
                   envelopeBlock, readBlock, bloomBlocks>>

\* GainStage::process of the stage at index s: the one load of its target.
LegProcess(s) ==
    /\ IF s = preStageIndex_
       THEN /\ legBlockTarget' = [legBlockTarget EXCEPT !["pre"] = legTarget["pre"]]
            /\ readBlock' = [readBlock EXCEPT !["pre"] = targetBlock["pre"]]
       ELSE IF s = postStageIndex_
            THEN /\ legBlockTarget' = [legBlockTarget EXCEPT !["post"] = legTarget["post"]]
                 /\ readBlock' = [readBlock EXCEPT !["post"] = targetBlock["post"]]
            ELSE UNCHANGED <<legBlockTarget, readBlock>>
    /\ UNCHANGED <<preStageIndex_, postStageIndex_, envelope_, legTarget,
                   envelopeBlock, targetBlock, pushed, bloomBlocks>>

\* Pipeline::process with the BloomController and the two GainStages in it.
BloomProcessBegin ==
    /\ bloomBlocks < MaxBlocks
    /\ \E in \in PipeInputs : PipelineProcessBegin(in)
    /\ bloomBlocks' = bloomBlocks + 1
    /\ UNCHANGED <<preStageIndex_, postStageIndex_, envelope_, legTarget,
                   legBlockTarget, envelopeBlock, targetBlock, readBlock, pushed>>

BloomPipelinePreProcess ==
    /\ PipelinePreProcess
    /\ IF ControllerLoopCond(pcx) THEN BloomPreProcess ELSE UNCHANGED bloomVars

BloomPipelineStage ==
    /\ PipelineStage
    /\ IF StageLoopCond(ps) THEN LegProcess(ps) ELSE UNCHANGED bloomVars

\* The controller's betweenStages leaves the buffer as it is.
BloomPipelineBetweenStages ==
    /\ PipelineBetweenStages
    /\ pbuf' = pbuf
    /\ IF ControllerLoopCond(pcx) THEN BloomBetweenStages(ps) ELSE UNCHANGED bloomVars

\* The four parameters the controller reads.
BloomParams == {BloomBasePre_dB, BloomBasePost_dB, BloomPreDepth, BloomPostDepth}

\* --------------------------------------------------------- specifications
vars == <<namVars, pipeVars, hostVars, paramVars, gainVars, gainBlocks, bloomVars>>

Init ==
    /\ NamInit /\ PipeInit /\ HostInit /\ ParamConstructed /\ GainConstructed
    /\ BloomConstructed(0, 2)

\* One NamStage, a control thread calling prepare / loadModel / unloadModel one
\* call at a time, and the audio thread calling process.
CtlPrepare ==
    /\ lpc["ctl"] = "idle"
    /\ maxBlockSize_ = 0
    /\ NamPrepare(NumSamples)
    /\ UNCHANGED <<memberVars, alive, mPath, loaderVars, apc, atmp, buffer,
                   bufferIn, callHist, blockHist, syncHist, staged, memErr>>

CtlLoadModel ==
    /\ \E path \in LoadPaths : EnterLoad("ctl", path)
    /\ UNCHANGED <<memberVars, heapVars, maxBlockSize_, lraw, lold, lres,
                   audioVars, allOk, lastStaged, lastKind, blockHist, syncHist,
                   staged, memErr>>

CtlUnloadModel ==
    /\ EnterUnload("ctl")
    /\ UNCHANGED <<memberVars, heapVars, maxBlockSize_, lraw, lold, lres,
                   audioVars, allOk, lastStaged, lastKind, blockHist, syncHist,
                   staged, memErr>>

AudioProcess == \E in \in InputBlocks : ProcessBegin(in)

NextNam ==
    \/ CtlPrepare /\ UNCHANGED <<pipeVars, hostVars, paramVars, gainVars, gainBlocks, bloomVars>>
    \/ CtlLoadModel /\ UNCHANGED <<pipeVars, hostVars, paramVars, gainVars, gainBlocks, bloomVars>>
    \/ CtlUnloadModel /\ UNCHANGED <<pipeVars, hostVars, paramVars, gainVars, gainBlocks, bloomVars>>
    \/ LoadCreate("ctl") /\ UNCHANGED <<pipeVars, hostVars, paramVars, gainVars, gainBlocks, bloomVars>>
    \/ LoadConfig("ctl") /\ UNCHANGED <<pipeVars, hostVars, paramVars, gainVars, gainBlocks, bloomVars>>
    \/ LoadStoreRead("ctl") /\ UNCHANGED <<pipeVars, hostVars, paramVars, gainVars, gainBlocks, bloomVars>>
    \/ LoadStoreWrite("ctl") /\ UNCHANGED <<pipeVars, hostVars, paramVars, gainVars, gainBlocks, bloomVars>>
    \/ LoadStoreDelete("ctl") /\ UNCHANGED <<pipeVars, hostVars, paramVars, gainVars, gainBlocks, bloomVars>>
    \/ LoadStorePath("ctl") /\ UNCHANGED <<pipeVars, hostVars, paramVars, gainVars, gainBlocks, bloomVars>>
    \/ LoadRaiseFlag("ctl") /\ UNCHANGED <<pipeVars, hostVars, paramVars, gainVars, gainBlocks, bloomVars>>
    \/ UnloadRead("ctl") /\ UNCHANGED <<pipeVars, hostVars, paramVars, gainVars, gainBlocks, bloomVars>>
    \/ UnloadWrite("ctl") /\ UNCHANGED <<pipeVars, hostVars, paramVars, gainVars, gainBlocks, bloomVars>>
    \/ UnloadDelete("ctl") /\ UNCHANGED <<pipeVars, hostVars, paramVars, gainVars, gainBlocks, bloomVars>>
    \/ UnloadPath("ctl") /\ UNCHANGED <<pipeVars, hostVars, paramVars, gainVars, gainBlocks, bloomVars>>
    \/ UnloadRaiseFlag("ctl") /\ UNCHANGED <<pipeVars, hostVars, paramVars, gainVars, gainBlocks, bloomVars>>
    \/ AudioProcess /\ UNCHANGED <<pipeVars, hostVars, paramVars, gainVars, gainBlocks, bloomVars>>
    \/ ProcessCheckPending /\ UNCHANGED <<pipeVars, hostVars, paramVars, gainVars, gainBlocks, bloomVars>>
    \/ ApplyReleaseRead /\ UNCHANGED <<pipeVars, hostVars, paramVars, gainVars, gainBlocks, bloomVars>>
    \/ ApplyReleaseNull /\ UNCHANGED <<pipeVars, hostVars, paramVars, gainVars, gainBlocks, bloomVars>>
    \/ ApplyReset /\ UNCHANGED <<pipeVars, hostVars, paramVars, gainVars, gainBlocks, bloomVars>>
    \/ ApplyMovePath /\ UNCHANGED <<pipeVars, hostVars, paramVars, gainVars, gainBlocks, bloomVars>>
    \/ ApplyClearFlag /\ UNCHANGED <<pipeVars, hostVars, paramVars, gainVars, gainBlocks, bloomVars>>
    \/ updateCalibration /\ UNCHANGED <<pipeVars, hostVars, paramVars, gainVars, gainBlocks, bloomVars>>
    \/ ProcessRun /\ UNCHANGED <<pipeVars, hostVars, paramVars, gainVars, gainBlocks, bloomVars>>
    \/ ProcessEnd /\ UNCHANGED <<pipeVars, hostVars, paramVars, gainVars, gainBlocks, bloomVars>>

SpecNam == Init /\ [][NextNam]_vars

\* One Pipeline assembled from stages and controllers, then driven block by block.
NextPipeline ==
    \/ (\E p \in {NullPtr, numStages_ + 1} : addStage(p))
       /\ UNCHANGED <<namVars, hostVars, paramVars, gainVars, gainBlocks, bloomVars>>
    \/ (\E p \in {NullPtr, numControllers_ + 1} : addController(p))
       /\ UNCHANGED <<namVars, hostVars, paramVars, gainVars, gainBlocks, bloomVars>>
    \/ (\E sr \in SampleRates : PipelinePrepare(sr, NumSamples))
       /\ UNCHANGED <<namVars, hostVars, paramVars, gainVars, gainBlocks, bloomVars>>
    \/ PipelineReset /\ UNCHANGED <<namVars, hostVars, paramVars, gainVars, gainBlocks, bloomVars>>
    \/ (\E in \in PipeInputs : PipelineProcessBegin(in))
       /\ UNCHANGED <<namVars, hostVars, paramVars, gainVars, gainBlocks, bloomVars>>
    \/ PipelinePreProcess /\ UNCHANGED <<namVars, hostVars, paramVars, gainVars, gainBlocks, bloomVars>>
    \/ PipelineStage /\ UNCHANGED <<namVars, hostVars, paramVars, gainVars, gainBlocks, bloomVars>>
    \/ PipelineBetweenStages /\ UNCHANGED <<namVars, hostVars, paramVars, gainVars, gainBlocks, bloomVars>>
    \/ PipelineProcessEnd /\ UNCHANGED <<namVars, hostVars, paramVars, gainVars, gainBlocks, bloomVars>>

SpecPipeline == Init /\ [][NextPipeline]_vars

\* The LV2 plugin instance after its constructor: masterGain and nam added to the
\* pipeline, the pipeline (and with it the NamStage) prepared.  The audio thread
\* runs run(), a loader thread started by triggerLoad runs loadModel, and a host
\* thread runs state_restore.
LV2Loaders == {"bg", "host"}

InitLV2 ==
    /\ NamConstructed(NumSamples)
    /\ PipeConstructed(2, 48000, NumSamples)
    /\ HostInit
    /\ ParamConstructed
    /\ GainConstructed
    /\ BloomConstructed(0, 2)

NextLV2 ==
    \/ \E cur \in ReloadValues, sidecar \in GoodPaths \cup ThrowPaths \cup {NoPath} :
           RunBegin(cur, sidecar)
    \/ TriggerJoin
    \/ TriggerSpawn
    \/ LoaderStart
    \/ LoaderFinish
    \/ \E in \in InputBlocks : RunProcess(in)
    \/ RunEnd
    \/ \E path \in GoodPaths \cup ThrowPaths : state_restore(path)
    \/ cleanup
    \/ (\E t \in LV2Loaders : LoadCreate(t)) /\ UNCHANGED <<pipeVars, hostVars, paramVars, gainVars, gainBlocks, bloomVars>>
    \/ (\E t \in LV2Loaders : LoadConfig(t)) /\ UNCHANGED <<pipeVars, hostVars, paramVars, gainVars, gainBlocks, bloomVars>>
    \/ (\E t \in LV2Loaders : LoadStoreRead(t)) /\ UNCHANGED <<pipeVars, hostVars, paramVars, gainVars, gainBlocks, bloomVars>>
    \/ (\E t \in LV2Loaders : LoadStoreWrite(t)) /\ UNCHANGED <<pipeVars, hostVars, paramVars, gainVars, gainBlocks, bloomVars>>
    \/ (\E t \in LV2Loaders : LoadStoreDelete(t)) /\ UNCHANGED <<pipeVars, hostVars, paramVars, gainVars, gainBlocks, bloomVars>>
    \/ (\E t \in LV2Loaders : LoadStorePath(t)) /\ UNCHANGED <<pipeVars, hostVars, paramVars, gainVars, gainBlocks, bloomVars>>
    \/ (\E t \in LV2Loaders : LoadRaiseFlag(t)) /\ UNCHANGED <<pipeVars, hostVars, paramVars, gainVars, gainBlocks, bloomVars>>
    \/ ProcessCheckPending /\ UNCHANGED <<pipeVars, hostVars, paramVars, gainVars, gainBlocks, bloomVars>>
    \/ ApplyReleaseRead /\ UNCHANGED <<pipeVars, hostVars, paramVars, gainVars, gainBlocks, bloomVars>>
    \/ ApplyReleaseNull /\ UNCHANGED <<pipeVars, hostVars, paramVars, gainVars, gainBlocks, bloomVars>>
    \/ ApplyReset /\ UNCHANGED <<pipeVars, hostVars, paramVars, gainVars, gainBlocks, bloomVars>>
    \/ ApplyMovePath /\ UNCHANGED <<pipeVars, hostVars, paramVars, gainVars, gainBlocks, bloomVars>>
    \/ ApplyClearFlag /\ UNCHANGED <<pipeVars, hostVars, paramVars, gainVars, gainBlocks, bloomVars>>
    \/ updateCalibration /\ UNCHANGED <<pipeVars, hostVars, paramVars, gainVars, gainBlocks, bloomVars>>
    \/ ProcessRun /\ UNCHANGED <<pipeVars, hostVars, paramVars, gainVars, gainBlocks, bloomVars>>

SpecLV2 == InitLV2 /\ [][NextLV2]_vars

\* One ParamRegistry: control threads calling set and resetToDefaults, the
\* audio thread calling get.
NextParams ==
    \/ (\E id \in ParamIds, value \in ParamValues : set(id, value))
       /\ UNCHANGED <<namVars, pipeVars, hostVars, gainVars, gainBlocks, bloomVars>>
    \/ (\E id \in ParamIds : get(id))
       /\ UNCHANGED <<namVars, pipeVars, hostVars, gainVars, gainBlocks, bloomVars>>
    \/ resetToDefaultsBegin /\ UNCHANGED <<namVars, pipeVars, hostVars, gainVars, gainBlocks, bloomVars>>
    \/ resetToDefaultsStore /\ UNCHANGED <<namVars, pipeVars, hostVars, gainVars, gainBlocks, bloomVars>>

SpecParams == Init /\ [][NextParams]_vars

\* One GainStage: a control thread calling the setters, prepare and reset.
NextGain ==
    \/ (\E db \in DbInputs : setGainDb(db))
       /\ UNCHANGED <<namVars, pipeVars, hostVars, paramVars, gainBlocks, bloomVars>>
    \/ (\E linear \in LinearInputs : setGainLinear(linear))
       /\ UNCHANGED <<namVars, pipeVars, hostVars, paramVars, gainBlocks, bloomVars>>
    \/ (\E sr \in GainSampleRates : GainPrepare(sr))
       /\ UNCHANGED <<namVars, pipeVars, hostVars, paramVars, gainBlocks, bloomVars>>
    \/ GainReset /\ UNCHANGED <<namVars, pipeVars, hostVars, paramVars, gainBlocks, bloomVars>>
    \/ (\E in \in GainInputs : GainProcessBegin(in))
       /\ gainBlocks < MaxBlocks
       /\ gainBlocks' = gainBlocks + 1
       /\ UNCHANGED <<namVars, pipeVars, hostVars, paramVars, bloomVars>>
    \/ GainProcessSample
       /\ UNCHANGED <<namVars, pipeVars, hostVars, paramVars, gainBlocks, bloomVars>>

SpecGain == Init /\ [][NextGain]_vars

\* One GainStage whose audio thread keeps calling process on a constant unit
\* input: every process call that can start does, and every block that has
\* started is finished.  The control thread calls the setters when it likes.
LiveDbInputs == {-60, 0}
UnitInput == [i \in 1..NumSamples |-> Unity]
LiveFrame == UNCHANGED <<namVars, pipeVars, hostVars, paramVars, gainBlocks, bloomVars>>
LiveProcessBegin == GainProcessBegin(UnitInput) /\ LiveFrame
LiveProcessSample == GainProcessSample /\ LiveFrame
NextGainLive ==
    \/ (\E db \in LiveDbInputs : setGainDb(db)) /\ LiveFrame
    \/ setGainLinear(NaN) /\ LiveFrame
    \/ GainPrepare(48000) /\ LiveFrame
    \/ LiveProcessBegin
    \/ LiveProcessSample

SpecGainLive ==
    /\ Init
    /\ [][NextGainLive]_vars
    /\ WF_vars(LiveProcessBegin)
    /\ WF_vars(LiveProcessSample)

InitBloom ==
    /\ NamInit /\ HostInit /\ ParamConstructed /\ GainConstructed
    /\ \E t \in Topologies : BloomAssembled(t[1]) /\ BloomConstructed(t[2], t[3])

NextBloom ==
    \/ (\E id \in BloomParams, value \in BloomValues : set(id, value))
       /\ UNCHANGED <<namVars, pipeVars, hostVars, gainVars, gainBlocks, bloomVars>>
    \/ BloomProcessBegin /\ UNCHANGED <<namVars, hostVars, paramVars, gainVars, gainBlocks>>
    \/ BloomPipelinePreProcess /\ UNCHANGED <<namVars, hostVars, paramVars, gainVars, gainBlocks>>
    \/ BloomPipelineStage /\ UNCHANGED <<namVars, hostVars, paramVars, gainVars, gainBlocks>>
    \/ BloomPipelineBetweenStages /\ UNCHANGED <<namVars, hostVars, paramVars, gainVars, gainBlocks>>
    \/ PipelineProcessEnd /\ UNCHANGED <<namVars, hostVars, paramVars, gainVars, gainBlocks, bloomVars>>

SpecBloom == InitBloom /\ [][NextBloom]_vars

\* ------------------------------------------------------------------ claims
\* C1: once the last of a sequence of successful loadModel/unloadModel calls has
\* returned and a process call that started after it has completed, the active
\* model is the one that call staged and the pending flag is lowered.
C1_ActiveIsLastStaged ==
    (AllIdle /\ allOk /\ epoch > 0 /\ doneEpoch = epoch)
        => (model_ = lastStaged /\ ~modelPending_)

\* C2: a model that process moves into the active slot was created, configured
\* and stored into the pending slot before the raise of the flag that process
\* read (its construction happens-before the acquire read).
C2_ActiveWasPublished == hasModel => model_ \in acquired

\* C3: at most one loadModel/unloadModel invocation is in progress on the stage.
InLoad(t) == lpc[t] # "idle"
C3_OneLoaderAtATime == Cardinality({t \in Loaders : InLoad(t)}) <= 1

\* C4: every staged model that is alive has exactly one owner -- the active slot,
\* the pending slot, the pointer the audio thread is carrying from one to the
\* other, or the old pointer a later load/unload is about to delete -- and a
\* model that was deleted has none.
Owners(m) ==
    (IF model_ = m THEN 1 ELSE 0)
    + (IF pendingModel_ = m THEN 1 ELSE 0)
    + (IF apc = "reset" /\ atmp = m THEN 1 ELSE 0)
    + Cardinality({t \in Loaders : lpc[t] \in {"st_delete", "u_delete"} /\ lold[t] = m})
C4_ExactlyOneOwner ==
    \A m \in staged : Owners(m) = (IF m \in alive THEN 1 ELSE 0)

\* C5: every step of a loadModel call whose model creation fails leaves the
\* active and pending model, both paths, the flag and the calibration gains as
\* they were, and the call returns false.
FailingLoadStep(t) ==
    \/ lpc[t] = "idle" /\ lpc'[t] = "create" /\ CreateFromFile(lpath'[t]) # "ok"
    \/ lpc[t] = "create" /\ lpc'[t] = "idle"
C5_FailedLoadChangesNothing ==
    [][\A t \in Loaders :
          FailingLoadStep(t) =>
              /\ UNCHANGED namObservable
              /\ (lpc'[t] = "idle" => (lres'[t] = FALSE /\ CreateFromFile(lpath[t]) # "ok"))]_vars
C5_Witness ==
    /\ AllIdle
    /\ lres["ctl"] = FALSE
    /\ CreateFromFile(lpath["ctl"]) = "throw"
    /\ hasModel
    /\ ~modelPending_

\* C6: a process call that finds no active model after the pending check leaves
\* every sample of the buffer as it was.
C6_NoModelPassThrough == (apc = "done" /\ ~hasModel) => buffer = bufferIn
C6_Witness ==
    /\ apc = "done"
    /\ ~hasModel
    /\ lastKind = "unload"
    /\ ~modelPending_
    /\ \E m \in staged : m \notin alive
    /\ buffer = bufferIn
    /\ bufferIn # Zeros

\* C7: after unloadModel has returned and the next process call has run, there is
\* no active model, the active path is empty, both gains are 1 and the block
\* passed through; a block that ran with a live active model is that model's output.
C7_UnloadTakesEffect ==
    /\ (AllIdle /\ lastKind = "unload" /\ doneEpoch = epoch)
           => /\ ~hasModel
              /\ modelPath = NoPath
              /\ inputGainLinear_ = Unity
              /\ outputGainLinear_ = Unity
              /\ (apc = "idle" => buffer = bufferIn)
    /\ (apc = "done" /\ hasModel /\ ~memErr) => buffer = RunModel(bufferIn)

\* C8: in one Pipeline::process call every preProcess comes first, in
\* registration order; then, stage by stage in registration order, the stage's
\* process followed by every controller's betweenStages for that stage.
PreCalls(C) == [c \in 1..C |-> <<"preProcess", c - 1>>]
StageBlock(s, C) ==
    <<(<<"process", s>>)>> \o [c \in 1..C |-> <<"betweenStages", c - 1, s>>]
RECURSIVE StageCalls(_, _)
StageCalls(S, C) ==
    IF S = 0 THEN <<>> ELSE StageCalls(S - 1, C) \o StageBlock(S - 1, C)
ExpectedOrder(S, C) == PreCalls(C) \o StageCalls(S, C)
IsPrefix(a, b) == Len(a) <= Len(b) /\ \A i \in 1..Len(a) : a[i] = b[i]
InProcess == ppc \in {"pre", "stage", "between", "done"}
C8_CallOrder ==
    InProcess =>
        /\ IsPrefix(callLog, ExpectedOrder(numStages_, numControllers_))
        /\ (ppc = "done" => Len(callLog) = Len(ExpectedOrder(numStages_, numControllers_)))
C8_Witness ==
    /\ ppc = "between"
    /\ numStages_ = 3
    /\ numControllers_ = 2
    /\ ps = 1
    /\ pcx = 1
    /\ callLog[Len(callLog)] = <<"betweenStages", 0, 1>>

\* C9: one process call makes S + S*C + C calls: each stage's process once, each
\* controller's preProcess once, each controller's betweenStages S times, once
\* per stage index.
Count(e) == Cardinality({i \in 1..Len(callLog) : callLog[i] = e})
HookCount(c) ==
    Cardinality({i \in 1..Len(callLog) :
                    callLog[i][1] = "betweenStages" /\ callLog[i][2] = c})
C9_CallCounts ==
    ppc = "done" =>
        /\ \A s \in 0..(numStages_ - 1) : Count(<<"process", s>>) = 1
        /\ \A c \in 0..(numControllers_ - 1) :
              /\ Count(<<"preProcess", c>>) = 1
              /\ HookCount(c) = numStages_
              /\ \A s \in 0..(numStages_ - 1) : Count(<<"betweenStages", c, s>>) = 1
        /\ Len(callLog) = numStages_ + numStages_ * numControllers_ + numControllers_
C9_Witness ==
    /\ ppc = "done"
    /\ numStages_ = kMaxStages
    /\ numControllers_ = kMaxControllers
    /\ Len(callLog) = kMaxStages + kMaxStages * kMaxControllers + kMaxControllers

\* C10: with no stage registered, process leaves the buffer as it was and calls
\* no betweenStages hook, however many controllers there are.
C10_EmptyPipeline ==
    (InProcess /\ numStages_ = 0) =>
        /\ pbuf = pbufIn
        /\ \A i \in 1..Len(callLog) : callLog[i][1] # "betweenStages"
C10_Witness ==
    /\ ppc = "done"
    /\ numStages_ = 0
    /\ numControllers_ = kMaxControllers
    /\ Len(callLog) = kMaxControllers
    /\ pbuf = pbufIn

\* C11: numStages() never exceeds kMaxStages and numControllers() never exceeds
\* kMaxControllers, and no null pointer is ever counted among the registered
\* stages or controllers: an add that breaks a precondition stores nothing.
C11_CapacityRespected ==
    /\ numStages <= kMaxStages
    /\ numControllers <= kMaxControllers
    /\ \A i \in 0..(kMaxStages - 1) : i < numStages_ => stages_[i] # NullPtr
    /\ \A i \in 0..(kMaxControllers - 1) :
          i < numControllers_ => controllers_[i] # NullPtr

\* C12: once Pipeline::prepare has been called, no step changes the stage
\* sequence or the controller sequence.
PrepareCalled == pipeMaxBlockSize_ > 0
C12_TopologyFrozen ==
    [][PrepareCalled =>
          /\ stages_' = stages_
          /\ numStages_' = numStages_
          /\ controllers_' = controllers_
          /\ numControllers_' = numControllers_]_vars

\* C13: a Pipeline::prepare calls prepare on every registered stage exactly
\* once, in registration order, with the arguments it was given, and a
\* Pipeline::reset calls reset on every registered stage exactly once in that
\* order; neither makes any other call.
C13_ForwardsToEveryStage ==
    [][/\ (prepLog' # prepLog) =>
            /\ Len(prepLog') = numStages_
            /\ \A i \in 1..numStages_ :
                  prepLog'[i] = <<stages_[i - 1], sampleRate_', pipeMaxBlockSize_'>>
       /\ (resetLog' # <<>>) =>
            /\ Len(resetLog') = numStages_
            /\ \A i \in 1..numStages_ : resetLog'[i] = stages_[i - 1]]_vars
C13_Witness ==
    /\ numStages_ = 3
    /\ numControllers_ = 2
    /\ ppc = "idle"
    /\ resetLog = <<1, 2, 3>>
    /\ prepLog = <<(<<1, 48000, NumSamples>>), (<<2, 48000, NumSamples>>),
                   (<<3, 48000, NumSamples>>)>>

\* C14: for a declared parameter id, a get(id) that directly follows set(id, v)
\* returns v when v lies in [min(id), max(id)], max(id) when v is above it and
\* min(id) when v is below it.
C14_GetAfterSet ==
    [][\A id \in ParamIds \cap DeclaredIds, v \in ParamValues :
          (/\ lastCall = <<"set", id, v>>
           /\ lastCall'[1] = "get"
           /\ lastCall'[2] = id
           /\ ~IsNaN(v))
          => /\ (kParamInfo(id).minValue <= v /\ v <= kParamInfo(id).maxValue)
                    => lastCall'[3] = v
             /\ v > kParamInfo(id).maxValue => lastCall'[3] = kParamInfo(id).maxValue
             /\ v < kParamInfo(id).minValue => lastCall'[3] = kParamInfo(id).minValue]_vars
C14_Witness ==
    /\ lastCall = <<"get", 30, 240>>
    /\ values_[30] = 240
    /\ values_[3] = 120

\* C15: in every reachable state every stored value lies within the registered
\* [min, max] of its parameter, and so does every value get returns.
WithinRange(i, x) ==
    /\ ~IsNaN(x)
    /\ kParamInfo(i).minValue <= x
    /\ x <= kParamInfo(i).maxValue
C15_ValuesWithinRange ==
    /\ \A i \in 0..(kNumParams - 1) : WithinRange(i, values_[i])
    /\ (lastCall[1] = "get" /\ ~BadIndex(lastCall[2]))
          => WithinRange(lastCall[2], lastCall[3])

\* C16: after construction, and whenever a resetToDefaults has returned and no
\* set has stored since it began, every parameter holds its registered default
\* and get returns it; a second resetToDefaults leaves that state as it is.
C16_ResetRestoresDefaults ==
    (rstpc = "idle" /\ ~dirty) =>
        /\ \A i \in 0..(kNumParams - 1) : values_[i] = kParamInfo(i).defaultValue
        /\ (lastCall[1] = "get" /\ ~BadIndex(lastCall[2]))
              => lastCall[3] = kParamInfo(lastCall[2]).defaultValue
        /\ (lastCall[1] = "get" /\ lastCall[2] = 30) => lastCall[3] = 0
C16_Witness ==
    /\ resetCount = MaxResets
    /\ rstpc = "idle"
    /\ ~dirty
    /\ lastCall = <<"get", 3, 30>>

\* C17: for an id that is not a declared ParamId (a value in a gap between the
\* groups, kCount or more), set leaves every stored value as it was and get
\* returns 0.
C17_UndeclaredIdIgnored ==
    [][\A id \in ParamIds \ DeclaredIds :
          /\ (lastCall'[1] = "set" /\ lastCall'[2] = id) => values_' = values_
          /\ (lastCall'[1] = "get" /\ lastCall'[2] = id) => lastCall'[3] = 0]_vars

\* C18: setGainDb(db) stores max(10^(clamp(db, -60, 24)/20), 1e-3): every db
\* at or below -60 stores what -60 stores (0.001), every db at or above 24
\* what 24 stores (15.849), and a db in between its own conversion.
C18_SetGainDbTarget ==
    (gainCall[1] = "setGainDb" /\ ~IsNaN(gainCall[2])) =>
        /\ gainCall[2] <= -60 => targetGainLinear_ = 1
        /\ gainCall[2] >= 24 => targetGainLinear_ = 15849
        /\ gainCall[2] = -20 => targetGainLinear_ = 100
        /\ gainCall[2] = 0 => targetGainLinear_ = 1000
C18_Witness ==
    /\ gainCall = <<"setGainDb", 100>>
    /\ targetGainLinear_ = 15849
    /\ current_ = 1

\* C19: in every reachable state the stored target gain is at least kMinLin.
C19_TargetAtLeastFloor == FLess(kMinLin, targetGainLinear_) \/ targetGainLinear_ = kMinLin

\* C20: the stored target gain never exceeds the linear equivalent of kMaxDb.
C20_TargetAtMostMax == ~FLess(dbToLinear(kMaxDb), targetGainLinear_)

\* C21: GainStage::process reads the atomic target once, on entry: while a
\* block is being processed the target the smoother moves toward does not
\* change, whatever the setters store meanwhile, and a process call that
\* starts takes the value stored last as the smoother's target.
C21_TargetReadOncePerBlock ==
    [][/\ gpc = "sample" => target_' = target_
       /\ (gpc = "idle" /\ gpc' = "sample") => target_' = targetGainLinear_]_vars
C21_Witness ==
    /\ gpc = "sample"
    /\ gi = 2
    /\ gainCall = <<"setGainDb", 24>>
    /\ targetGainLinear_ = 15849
    /\ target_ = Unity

WithinTolerance(g) ==
    /\ ~IsNaN(current_)
    /\ (current_ - g) * 1000 <= g
    /\ (g - current_) * 1000 <= g
C23_ConvergesToTarget ==
    \A db \in LiveDbInputs :
        <>[](targetGainLinear_ = dbToLinear(db)) => <>[]WithinTolerance(dbToLinear(db))

\* C24: in every process call of a Pipeline with a BloomController, the target
\* the pre GainStage loads and the target the post GainStage loads for the
\* block both come from the envelope that preProcess cached in that call.
Processed(s) == \E i \in 1..Len(callLog) : callLog[i] = <<"process", s>>
C24_LegsShareBlockEnvelope ==
    /\ Processed(preStageIndex_) => readBlock["pre"] = bloomBlocks
    /\ Processed(postStageIndex_) => readBlock["post"] = bloomBlocks

\* C25: the pushed pre target is clamp(BasePre - A*envelope, kMinDb, kMaxDb)
\* and the pushed post target is clamp(BasePost + B*envelope, kMinDb, kMaxDb);
\* envelope 1, BasePre 0, A 6 gives -6 dB and envelope 0 gives the base.
Limit(db) ==
    IF db < kMinDb * 10 THEN kMinDb * 10
    ELSE IF db > kMaxDb * 10 THEN kMaxDb * 10 ELSE db
C26_RunNeverWaits == ~(rpc = "join" /\ loaderThread_ = "running")

\* C27: no step of NamStage::process frees a model object, also in the block
\* where a pending model replaces an active one (every step of process moves
\* apc; no loader step does).
C27_AudioNeverFrees == [][apc' # apc => alive \subseteq alive']_vars

\* C28: within one process call the pending flag is checked, and the swap made,
\* at most once and before any sample: the check is reached only on entry, the
\* swap starts only at the check, and from the first sample to the return the
\* active model stays the same, whatever loadModel or unloadModel do meanwhile.
C28_SwapOncePerBlock ==
    [][/\ (apc' = "check" /\ apc # "check") => apc = "idle"
       /\ (apc' = "rel_read" /\ apc # "rel_read") => apc = "check"
       /\ apc \in {"run", "done"} => model_' = model_
       /\ (apc = "run" /\ apc' = "done" /\ model_ = NoModel) => buffer' = bufferIn]_vars
\* A load completed while the block was passed through without a model.
C28_Witness ==
    /\ apc = "done"
    /\ model_ = NoModel
    /\ modelPending_
    /\ pendingModel_ # NoModel
    /\ buffer = bufferIn

\* C29: no control or loader thread writes the pending slot while the audio
\* thread is moving it in applyPendingModel, and a staged resource whose flag
\* is raised is not overwritten before the audio thread has taken it.
AudioMovingSlot == apc \in {"rel_null", "reset", "move_path"}
WritingSlot(t) == lpc[t] \in {"st_write", "st_delete", "st_path", "u_write", "u_delete", "u_path"}
OverwritesSlot(t) ==
    /\ lpc[t] \in {"st_write", "u_write"}
    /\ lpc'[t] # lpc[t]
C29_SlotIsSpscCell ==
    [][\A t \in Loaders :
           /\ AudioMovingSlot => ~WritingSlot(t)
           /\ OverwritesSlot(t) => ~modelPending_]_vars

\* C30: when a process call completes, modelPath() is the path given to the
\* loadModel call that created the active model, and it is empty exactly when
\* hasModel() is false.
C30_PathMatchesActiveModel ==
    apc = "done" =>
        /\ hasModel => modelPath = mPath[model_]
        /\ modelPath = NoPath <=> ~hasModel

\* C31: when a process call completes, the calibration gains are the linear
\* values of the active model's recommended adjustments, and 1 without a
\* model; only the recomputation inside a swap changes them.
CalibrationOf(m) ==
    IF m = NoModel THEN <<Unity, Unity>>
    ELSE <<DbToLinearNam(RecommendedInputDb(mPath[m])),
           DbToLinearNam(RecommendedOutputDb(mPath[m]))>>
C31_CalibrationMatchesModel ==
    apc = "done" => <<inputGainLinear_, outputGainLinear_>> = CalibrationOf(model_)

\* C32: whenever the pending flag is lowered and no loadModel or unloadModel
\* call is in progress, the pending slot holds no model and no path.
C32_NothingStranded ==
    (~modelPending_ /\ AllIdle) => (pendingModel_ = NoModel /\ pendingModelPath_ = NoPath)

\* C33: for every pre stage position, position 0 included, each process call
\* lets the BloomController update the pre GainStage's target exactly once
\* before that stage's process runs in the same call.
PreHooksBefore(i) ==
    {j \in 1..(i - 1) : callLog[j] = <<"betweenStages", 0, preStageIndex_ - 1>>}
C33_PreTargetUpdatedOnce ==
    \A i \in 1..Len(callLog) :
        callLog[i] = <<"process", preStageIndex_>> =>
            /\ Cardinality(PreHooksBefore(i)) = 1
            /\ targetBlock["pre"] = bloomBlocks

\* C34: run() starts a model load exactly when the Model Reload control is at
\* least 0.5 in this call, was below 0.5 in the previous call, and the sidecar
\* path is not empty (rcur is the control of the previous call until run()
\* stores the new one; rpath is the sidecar path this call read).
C34_LoadOnRisingEdgeOnly ==
    [][(rpc = "idle" /\ rpc' # "idle") =>
          (rpc' = "join" <=> (rcur' = Above /\ rcur = Below /\ rpath' # NoPath))]_vars
\* The control is held high in a second run() call and no second load starts.
C34_Witness ==
    /\ rpc = "copy"
    /\ rcur = Above
    /\ prevReloadValue = Above
    /\ loadRequested_
    /\ epoch = 1

\* C35: every model that is the active resource has been configured with the
\* maximum block size of the most recent prepare call, whether loadModel was
\* called before or after prepare.
C35_ActiveModelSized ==
    (hasModel /\ model_ \in alive /\ maxBlockSize_ > 0) => mBufSize[model_] = maxBlockSize_

\* C36: the plugin instance and its NamStage are never destroyed while a loader
\* thread started by triggerLoad is still running.
C36_NoLoaderAfterCleanup ==
    rpc = "destroyed" => (bgpc = "none" /\ lpc["bg"] = "idle" /\ loaderThread_ = "none")
\* The instance was destroyed after a background load had run to its end.
C36_Witness ==
    /\ rpc = "destroyed"
    /\ loadRequested_
    /\ loadComplete_
    /\ hasModel

\* C37: set(id, v) changes at most the stored value of parameter id, also when
\* other sets and a resetToDefaults are interleaved with it, and get changes
\* no stored value.
C37_SetTouchesOnlyItsId ==
    [][/\ (lastCall'[1] = "set" /\ lastCall' # lastCall) =>
              IF lastCall'[2] \in DOMAIN values_
              THEN values_' = [values_ EXCEPT ![lastCall'[2]] = values_'[lastCall'[2]]]
              ELSE values_' = values_
       /\ (lastCall'[1] = "get" /\ lastCall' # lastCall) => values_' = values_]_vars
\* Two sets to different ids have both taken effect.
C37_Witness ==
    /\ lastCall = <<"set", 6, 120>>
    /\ values_[6] = 120
    /\ values_[3] = 120
    /\ values_[30] = kParamInfo(30).defaultValue

\* C38: every ParamSmoother::next() returns a value between the previous
\* current value and the target, both included, and the gain GainStage::process
\* applies to a sample is never below kMinLin.
Between(x, a, b) ==
    /\ ~IsNaN(x) /\ ~IsNaN(a) /\ ~IsNaN(b)
    /\ (a <= x /\ x <= b) \/ (b <= x /\ x <= a)
C38_NextStaysBetween ==
    [][(gpc = "sample" /\ gi' = gi + 1) =>
           /\ Between(current_', current_, target_)
           /\ current_' >= kMinLin]_vars
\* The same with the smoother holding ordered values before the call.
C38_OrderedValues ==
    [][(gpc = "sample" /\ gi' = gi + 1 /\ ~IsNaN(current_) /\ ~IsNaN(target_)) =>
           /\ Between(current_', current_, target_)
           /\ current_' >= kMinLin]_vars

====
